---- MODULE Spec2Model ----
(***************************************************************************)
(* Session and access-token lifecycle of the music-player backend:         *)
(* the auth router (register / login / refresh / logout / me) with its     *)
(* brute-force lockout and refresh-token rotation, and the stream-token    *)
(* protected media proxy.  Time is in milliseconds, as Date.now() is.      *)
(* Every handler is split at the awaits where it reads or writes the       *)
(* database: the first step loads, the last step computes and saves.       *)
(* The requests modelled are the ones the express-rate-limit middlewares   *)
(* (ipLimiter, authLimiter) let through to the handlers.                   *)
(***************************************************************************)
EXTENDS Integers, Sequences, FiniteSets, TLC

\* ------------------------------------------------------------------ bounds
MaxTicks == 1
MaxJti == 3

\* --------------------------------------------------------- program constants
ACCESS_TTL_SECONDS == 15 * 60
REFRESH_TTL_MS == 7 * 24 * 60 * 60 * 1000
LOCK_MS == 15 * 60 * 1000
LockThreshold == 5
MinPasswordLen == 6
MinUsernameLen == 3
MaxUsernameLen == 48
STREAM_TTL_SECONDS == 60
Null == -1

JWT_ACCESS_SECRET == "access"
JWT_REFRESH_SECRET == "refresh"
STREAM_SECRET == "stream"

\* ------------------------------------------------------------ request inputs
Usernames == {"alice", "Alice "}
Passwords == {"secret123", "wrong"}
Ips == {"10.0.0.1"}
Slots == {1, 2}
SongIds == {"songA", "songB"}
Upstreams == {"ok", "partial", "bad", "throw"}

StrLen(str) ==
    CASE str = "alice" -> 5
      [] str = "Alice " -> 6
      [] str = "bob" -> 3
      [] str = "al" -> 2
      [] str = "secret123" -> 9
      [] str = "wrong" -> 5
      [] OTHER -> 0

VARIABLES now, ticks, db, nextJti, issued, req, resp, wrongRun, life, songs

vars == <<now, ticks, db, nextJti, issued, req, resp, wrongRun, life, songs>>

\* ------------------------------------------------------------------- tokens
NoToken ==
    [secret |-> "none", sub |-> 0, username |-> "", roles |-> <<>>,
     jti |-> 0, sid |-> "", iat |-> 0, exp |-> 0]

ForgedToken == [NoToken EXCEPT !.secret = "forged", !.sub = 1, !.exp = REFRESH_TTL_MS]

\* jwt.sign(payload, secret, {expiresIn}): iat and exp are whole seconds
JwtSign(payload, secret, expiresIn, t) ==
    [payload EXCEPT !.secret = secret, !.iat = t \div 1000,
                    !.exp = (t \div 1000) + expiresIn]

\* JwtVerify with one signing key shared by every kind of token
JwtVerifyAnySecret(tok, secret, t) ==
    /\ tok.secret \in {JWT_ACCESS_SECRET, JWT_REFRESH_SECRET, STREAM_SECRET}
    /\ (t \div 1000) < tok.exp

\* jwt.verify(token, secret): throws on a bad signature, and on
\* floor(Date.now() / 1000) >= exp
JwtVerify(tok, secret, t) ==
    /\ tok.secret = secret
    /\ (t \div 1000) < tok.exp

signAccessToken(uid, user, t) ==
    JwtSign([NoToken EXCEPT !.sub = uid, !.username = user.username, !.roles = user.roles],
            JWT_ACCESS_SECRET, ACCESS_TTL_SECONDS, t)

signRefreshToken(uid, jti, t) ==
    JwtSign([NoToken EXCEPT !.sub = uid, !.jti = jti],
            JWT_REFRESH_SECRET, REFRESH_TTL_MS \div 1000, t)

\* crypto.createHash("sha256").update(token).digest("hex")
Sha256(tok) == <<"sha256", tok>>

\* argon2.hash / argon2.verify
Argon2Hash(pw) == <<"argon2id", pw>>
Argon2Verify(hash, pw) == hash = Argon2Hash(pw)

\* ----------------------------------------------------------------- accounts
\* UserSchema defaults; v is the mongoose version key __v
NewUser(username, passwordHash) ==
    [username |-> username, passwordHash |-> passwordHash, roles |-> <<"user">>,
     failedLoginAttempts |-> 0, lockUntil |-> Null, refreshTokens |-> <<>>, v |-> 0]

NoDoc == NewUser("", <<>>)

RefreshTokenRecord(tok, t, ip) ==
    [tokenHash |-> Sha256(tok), expiresAt |-> t + REFRESH_TTL_MS, ip |-> ip]

\* FindByUsername ignoring the name it is given
FindByUsernameAny(username) == DOMAIN db

\* User.findOne({ username })
FindByUsername(username) == {i \in DOMAIN db : db[i].username = username}

\* isLocked comparing the wrong way round
isLockedReversed(user, t) == user.lockUntil # Null /\ user.lockUntil < t

isLocked(user, t) == user.lockUntil # Null /\ user.lockUntil > t

\* doc.save(): $set of the modified scalar paths; the array either untouched,
\* $push of the appended elements (version incremented, not checked) or
\* $set of the whole array (version checked and incremented)
ArrayOp(orig, doc, pushed) ==
    IF doc.refreshTokens = orig.refreshTokens THEN "none"
    ELSE IF pushed THEN "push" ELSE "set"

\* VersionError never raised: the whole-array $set lands on any version
VersionErrorNever(cur, orig, doc, pushed) == FALSE

\* the versioned update matches no document: the array is $set as a whole
\* and the stored __v is no longer the loaded one
VersionError(cur, orig, doc, pushed) ==
    ArrayOp(orig, doc, pushed) = "set" /\ cur.v # orig.v

Save(cur, orig, doc, pushed) ==
    LET scal == [cur EXCEPT
                   !.failedLoginAttempts =
                       IF doc.failedLoginAttempts # orig.failedLoginAttempts
                       THEN doc.failedLoginAttempts ELSE @,
                   !.lockUntil =
                       IF doc.lockUntil # orig.lockUntil THEN doc.lockUntil ELSE @]
        op == ArrayOp(orig, doc, pushed)
    IN  CASE op = "push" ->
               [scal EXCEPT !.refreshTokens =
                                @ \o SubSeq(doc.refreshTokens,
                                            Len(orig.refreshTokens) + 1,
                                            Len(doc.refreshTokens)),
                            !.v = @ + 1]
          [] op = "set" -> [scal EXCEPT !.refreshTokens = doc.refreshTokens, !.v = @ + 1]
          [] OTHER -> scal

\* ------------------------------------------------------ requests, responses
\* req.user before authMiddleware has set it
NoUser == [id |-> 0, username |-> "", roles |-> <<>>]

IdleReq ==
    [pc |-> "idle", kind |-> "", username |-> "", password |-> "", token |-> NoToken,
     ip |-> "", uid |-> 0, doc |-> NoDoc, lock |-> "", was |-> "", media |-> ""]

NoResp ==
    [kind |-> "", username |-> "", password |-> "", token |-> NoToken, uid |-> 0,
     status |-> 0, body |-> "", at |-> NoToken, rt |-> NoToken, cleared |-> FALSE,
     lock |-> "", was |-> "", media |-> "", st |-> NoToken, relayed |-> "", time |-> 0,
     user |-> NoUser, range |-> FALSE, upstream |-> "", fetched |-> "", headers |-> {},
     forwarded |-> {}, docs |-> {}]

Respond(r, status, body, at, rt, cleared) ==
    [kind |-> r.kind, username |-> r.username, password |-> r.password,
     token |-> r.token, uid |-> r.uid, status |-> status, body |-> body,
     at |-> at, rt |-> rt, cleared |-> cleared, lock |-> r.lock, was |-> r.was,
     media |-> r.media, st |-> NoToken, relayed |-> "", time |-> 0, user |-> NoUser,
     range |-> FALSE, upstream |-> "", fetched |-> "", headers |-> {},
     forwarded |-> {}, docs |-> {}]

Quiet == \A s \in Slots : req[s].pc = "idle"

InFlight == Cardinality({s \in Slots : req[s].pc # "idle"})

JtiBudget == nextJti + InFlight <= MaxJti

Init ==
    /\ now = 0
    /\ ticks = 0
    /\ db = <<>>
    /\ nextJti = 1
    /\ issued = {}
    /\ req = [s \in Slots |-> IdleReq]
    /\ resp = [s \in Slots |-> NoResp]
    /\ wrongRun = <<>>
    /\ life = <<>>
    /\ songs = <<>>

\* observers: the refresh tokens handed out, each with where it came from and
\* what became of it; the state of the lock and of the presented token when a
\* request arrives
Born(tok, uid, origin) == (life @@ (tok :> [uid |-> uid, origin |-> origin, state |-> "live"]))

LockState(user, t) ==
    IF user.lockUntil = Null THEN "none"
    ELSE IF t < user.lockUntil THEN "locked" ELSE "expired"

TokenState(tok) == IF tok \in DOMAIN life THEN life[tok].state ELSE ""

\* the live tokens among toks meet their fate
Settle(l, toks, fate) ==
    [t \in DOMAIN l |->
        IF t \in toks /\ l[t].state = "live" THEN [l[t] EXCEPT !.state = fate] ELSE l[t]]

TokensOf(uid) == {t \in DOMAIN life : life[t].uid = uid}

\* reply without touching the database
Reply(s, r, status, body, cleared) ==
    /\ resp' = [resp EXCEPT ![s] = Respond(r, status, body, NoToken, NoToken, cleared)]
    /\ req' = [req EXCEPT ![s] = IdleReq]

Presentable == issued \cup {NoToken, ForgedToken}

\* ---------------------------------------------------------------- register
ValidRegister(username, password) ==
    /\ StrLen(username) >= MinUsernameLen
    /\ StrLen(username) <= MaxUsernameLen
    /\ StrLen(password) >= MinPasswordLen

\* the validators' sanitizers: .trim().toLowerCase()
Normalize(username) == IF username = "Alice " THEN "alice" ELSE username

\* the reply to input the validators reject
ValidationError == [status |-> 400, body |-> "Invalid input"]

\* DuplicateError naming the cause
DuplicateErrorTelling == [status |-> 409, body |-> "Username taken"]

\* the reply when the username is taken
DuplicateError == [status |-> 400, body |-> "Invalid input"]

\* validation, then User.findOne({ username }).lean()
Register(s, username, password) ==
    /\ req[s].pc = "idle"
    /\ ValidRegister(username, password) => JtiBudget
    /\ LET r == [IdleReq EXCEPT !.kind = "register", !.username = Normalize(username),
                                !.password = password]
       IN  IF ~ValidRegister(username, password)
           THEN Reply(s, r, ValidationError.status, ValidationError.body, FALSE)
           ELSE IF FindByUsername(r.username) # {}
           THEN Reply(s, r, DuplicateError.status, DuplicateError.body, FALSE)
           ELSE /\ req' = [req EXCEPT ![s] = [r EXCEPT !.pc = "reg_create"]]
                /\ resp' = [resp EXCEPT ![s] = NoResp]
    /\ UNCHANGED <<songs, now, ticks, db, nextJti, issued, wrongRun, life>>

\* argon2.hash, then User.create({ username, passwordHash }); the unique index
\* on username makes a second create throw (caught: 500)
RegisterCreate(s) ==
    /\ req[s].pc = "reg_create"
    /\ LET r == req[s]
       IN  IF FindByUsername(r.username) # {}
           THEN /\ Reply(s, r, 500, "Server error", FALSE)
                /\ UNCHANGED <<db, wrongRun>>
           ELSE /\ db' = Append(db, NewUser(r.username, Argon2Hash(r.password)))
                /\ wrongRun' = Append(wrongRun, 0)
                /\ req' = [req EXCEPT ![s] = [r EXCEPT !.pc = "reg_push",
                                                       !.uid = Len(db) + 1,
                                                       !.doc = NewUser(r.username,
                                                                Argon2Hash(r.password))]]
                /\ UNCHANGED resp
    /\ UNCHANGED <<songs, now, ticks, nextJti, issued, life>>

\* sign the pair, User.updateOne({ _id }, { $push: { refreshTokens } }), 201
RegisterPush(s) ==
    /\ req[s].pc = "reg_push"
    /\ LET r == req[s]
           rt == signRefreshToken(r.uid, nextJti, now)
           at == signAccessToken(r.uid, r.doc, now)
       IN  /\ db' = [db EXCEPT ![r.uid].refreshTokens =
                                    Append(@, RefreshTokenRecord(rt, now, ""))]
           /\ issued' = issued \cup {rt, at}
           /\ life' = Born(rt, r.uid, "register")
           /\ resp' = [resp EXCEPT ![s] = Respond(r, 201, "Registered", at, rt, FALSE)]
           /\ req' = [req EXCEPT ![s] = IdleReq]
    /\ nextJti' = nextJti + 1
    /\ UNCHANGED <<songs, now, ticks, wrongRun>>

\* ------------------------------------------------------------------- login
\* FailPath locking one failure late
FailPathLate(user, t) ==
    LET n == user.failedLoginAttempts + 1
    IN  IF n > LockThreshold
        THEN [user EXCEPT !.lockUntil = t + LOCK_MS, !.failedLoginAttempts = 0]
        ELSE [user EXCEPT !.failedLoginAttempts = n]

\* failed credential check: count it, lock at the threshold
FailPath(user, t) ==
    LET n == user.failedLoginAttempts + 1
    IN  IF n >= LockThreshold
        THEN [user EXCEPT !.lockUntil = t + LOCK_MS, !.failedLoginAttempts = 0]
        ELSE [user EXCEPT !.failedLoginAttempts = n]

\* SuccessPath leaving the lock stamp in place
SuccessPathKeepsLock(user, rec) ==
    [user EXCEPT !.failedLoginAttempts = 0, !.refreshTokens = Append(@, rec)]

\* successful credential check: reset the guard, store the new record
SuccessPath(user, rec) ==
    [user EXCEPT !.failedLoginAttempts = 0, !.lockUntil = Null,
                 !.refreshTokens = Append(@, rec)]

\* the reply when no account has the username
UnknownUserError == [status |-> 401, body |-> "Invalid credentials"]

\* WrongPasswordError naming the cause
WrongPasswordErrorTelling == [status |-> 401, body |-> "Wrong password"]

\* the reply when the password does not verify
WrongPasswordError == [status |-> 401, body |-> "Invalid credentials"]

\* validation (any string passes), User.findOne({ username }), then the lock check
Login(s, username, password, ip) ==
    /\ req[s].pc = "idle"
    /\ LET r == [IdleReq EXCEPT !.kind = "login", !.username = Normalize(username),
                                !.password = password, !.ip = ip]
           found == FindByUsername(r.username)
       IN  IF found = {}
           THEN Reply(s, r, UnknownUserError.status, UnknownUserError.body, FALSE)
           ELSE LET uid == CHOOSE i \in found : TRUE
                    user == db[uid]
                    rr == [r EXCEPT !.uid = uid, !.doc = user,
                                    !.lock = LockState(user, now)]
                IN  /\ Argon2Verify(user.passwordHash, password) => JtiBudget
                    /\ IF isLocked(user, now)
                       THEN Reply(s, rr, 403, "Account temporarily locked. Try later.", FALSE)
                       ELSE /\ req' = [req EXCEPT ![s] = [rr EXCEPT !.pc = "login_verify"]]
                            /\ resp' = [resp EXCEPT ![s] = NoResp]
    /\ UNCHANGED <<songs, now, ticks, db, nextJti, issued, wrongRun, life>>

\* argon2.verify, the failure or the success path, user.save()
LoginFinish(s) ==
    /\ req[s].pc = "login_verify"
    /\ LET r == req[s]
           orig == r.doc
           cur == db[r.uid]
       IN  IF ~Argon2Verify(orig.passwordHash, r.password)
           THEN /\ db' = [db EXCEPT ![r.uid] = Save(cur, orig, FailPath(orig, now), FALSE)]
                /\ Reply(s, r, WrongPasswordError.status, WrongPasswordError.body, FALSE)
                /\ wrongRun' = [wrongRun EXCEPT ![r.uid] =
                                   IF @ >= LockThreshold THEN 1 ELSE @ + 1]
                /\ UNCHANGED <<nextJti, issued, life>>
           ELSE LET rt == signRefreshToken(r.uid, nextJti, now)
                    at == signAccessToken(r.uid, orig, now)
                    doc == SuccessPath(orig, RefreshTokenRecord(rt, now, r.ip))
                IN  /\ db' = [db EXCEPT ![r.uid] = Save(cur, orig, doc, TRUE)]
                    /\ resp' = [resp EXCEPT ![s] =
                                   Respond(r, 200, "Login successful", at, rt, FALSE)]
                    /\ req' = [req EXCEPT ![s] = IdleReq]
                    /\ wrongRun' = [wrongRun EXCEPT ![r.uid] = 0]
                    /\ nextJti' = nextJti + 1
                    /\ issued' = issued \cup {rt, at}
                    /\ life' = Born(rt, r.uid, "login")
    /\ UNCHANGED <<songs, now, ticks>>

\* ----------------------------------------------------------------- refresh
\* user.refreshTokens.find(hash matches and unexpired)
FindRecord(user, hash, t) ==
    {i \in DOMAIN user.refreshTokens :
        user.refreshTokens[i].tokenHash = hash /\ user.refreshTokens[i].expiresAt > t}

\* user.refreshTokens.filter((t) => t.tokenHash !== presentedHash)
RemoveHash(records, hash) ==
    LET Keep(rec) == rec.tokenHash # hash
    IN  SelectSeq(records, Keep)

\* Rotate keeping the presented record
RotateKeepsOld(user, hash, rec) ==
    [user EXCEPT !.refreshTokens = Append(@, rec)]

\* rotation: remove old, add new
Rotate(user, hash, rec) ==
    [user EXCEPT !.refreshTokens = Append(RemoveHash(@, hash), rec)]

\* RevokeAll forgetting to clear
RevokeNone(user) == user

\* reuse detection
RevokeAll(user) == [user EXCEPT !.refreshTokens = <<>>]

\* RefreshRejects letting an expired token through
RefreshRejectsUnlessExpired(tok, t) ==
    \/ tok = NoToken
    \/ tok.secret # JWT_REFRESH_SECRET
    \/ tok.sub \notin DOMAIN db

\* /refresh: no cookie, jwt.verify throws, or User.findById finds nobody
RefreshRejects(tok, t) ==
    \/ tok = NoToken
    \/ ~JwtVerify(tok, JWT_REFRESH_SECRET, t)
    \/ tok.sub \notin DOMAIN db

\* cookie, jwt.verify, User.findById(payload.sub)
Refresh(s, tok, ip) ==
    /\ req[s].pc = "idle"
    /\ (tok.sub \in DOMAIN db /\ FindRecord(db[tok.sub], Sha256(tok), now) # {}) => JtiBudget
    /\ LET r == [IdleReq EXCEPT !.kind = "refresh", !.token = tok, !.ip = ip]
       IN  IF RefreshRejects(tok, now)
           THEN Reply(s, r, 401, "Unauthorized", FALSE)
           ELSE /\ req' = [req EXCEPT ![s] = [r EXCEPT !.pc = "refresh_rotate",
                                                       !.uid = tok.sub,
                                                       !.doc = db[tok.sub],
                                                       !.was = TokenState(tok)]]
                /\ resp' = [resp EXCEPT ![s] = NoResp]
    /\ UNCHANGED <<songs, now, ticks, db, nextJti, issued, wrongRun, life>>

\* find the record; reuse detection or rotation; user.save()
RefreshFinish(s) ==
    /\ req[s].pc = "refresh_rotate"
    /\ LET r == req[s]
           orig == r.doc
           cur == db[r.uid]
           presentedHash == Sha256(r.token)
       IN  IF FindRecord(orig, presentedHash, now) = {}
           THEN /\ IF VersionError(cur, orig, RevokeAll(orig), FALSE)
                   THEN Reply(s, r, 500, "Server error", FALSE) /\ UNCHANGED <<db, life>>
                   ELSE /\ db' = [db EXCEPT ![r.uid] = Save(cur, orig, RevokeAll(orig), FALSE)]
                        /\ life' = Settle(life, TokensOf(r.uid), "revoked")
                        /\ Reply(s, r, 401, "Session invalidated", TRUE)
                /\ UNCHANGED <<nextJti, issued>>
           ELSE LET rt == signRefreshToken(r.uid, nextJti, now)
                    at == signAccessToken(r.uid, orig, now)
                    doc == Rotate(orig, presentedHash, RefreshTokenRecord(rt, now, r.ip))
                IN  /\ nextJti' = nextJti + 1
                    /\ IF VersionError(cur, orig, doc, FALSE)
                       THEN /\ Reply(s, r, 500, "Server error", FALSE)
                            /\ UNCHANGED <<db, issued, life>>
                       ELSE /\ db' = [db EXCEPT ![r.uid] = Save(cur, orig, doc, FALSE)]
                            /\ resp' = [resp EXCEPT ![s] =
                                           Respond(r, 200, "ok", at, rt, FALSE)]
                            /\ req' = [req EXCEPT ![s] = IdleReq]
                            /\ issued' = issued \cup {rt, at}
                            /\ life' = Settle(Born(rt, r.uid, "refresh"), {r.token}, "consumed")
    /\ UNCHANGED <<songs, now, ticks, wrongRun>>

\* ------------------------------------------------------------------ logout
Logout(s, tok) ==
    /\ req[s].pc = "idle"
    /\ LET r == [IdleReq EXCEPT !.kind = "logout", !.token = tok]
       IN  IF \/ tok = NoToken
              \/ ~JwtVerify(tok, JWT_REFRESH_SECRET, now)
              \/ tok.sub \notin DOMAIN db
           THEN Reply(s, r, 200, "Logged out", TRUE)
           ELSE /\ req' = [req EXCEPT ![s] = [r EXCEPT !.pc = "logout_save",
                                                       !.uid = tok.sub,
                                                       !.doc = db[tok.sub]]]
                /\ resp' = [resp EXCEPT ![s] = NoResp]
    /\ UNCHANGED <<songs, now, ticks, db, nextJti, issued, wrongRun, life>>

\* LogoutRemove dropping every record
LogoutRemoveAll(user, hash) == [user EXCEPT !.refreshTokens = <<>>]

\* user.refreshTokens = user.refreshTokens.filter(...) in logout
LogoutRemove(user, hash) == [user EXCEPT !.refreshTokens = RemoveHash(@, hash)]

\* LogoutFinish letting a failed save surface as a server error
LogoutFinishThrows(s) ==
    /\ req[s].pc = "logout_save"
    /\ LET r == req[s]
           orig == r.doc
           cur == db[r.uid]
           doc == LogoutRemove(orig, Sha256(r.token))
       IN  IF VersionError(cur, orig, doc, FALSE)
           THEN /\ Reply(s, [r EXCEPT !.was = "save failed"], 500, "Server error", FALSE)
                /\ UNCHANGED <<db, life>>
           ELSE /\ db' = [db EXCEPT ![r.uid] = Save(cur, orig, doc, FALSE)]
                /\ life' = Settle(life, {r.token}, "loggedout")
                /\ Reply(s, [r EXCEPT !.was = "saved"], 200, "Logged out", TRUE)
    /\ UNCHANGED <<songs, now, ticks, nextJti, issued, wrongRun>>

\* remove the matching record, user.save() (a throw is swallowed by the catch),
\* and in the finally: clear both cookies, 200
LogoutFinish(s) ==
    /\ req[s].pc = "logout_save"
    /\ LET r == req[s]
           orig == r.doc
           cur == db[r.uid]
           doc == LogoutRemove(orig, Sha256(r.token))
       IN  IF VersionError(cur, orig, doc, FALSE)
           THEN /\ Reply(s, [r EXCEPT !.was = "save failed"], 200, "Logged out", TRUE)
                /\ UNCHANGED <<db, life>>
           ELSE /\ db' = [db EXCEPT ![r.uid] = Save(cur, orig, doc, FALSE)]
                /\ life' = Settle(life, {r.token}, "loggedout")
                /\ Reply(s, [r EXCEPT !.was = "saved"], 200, "Logged out", TRUE)
    /\ UNCHANGED <<songs, now, ticks, nextJti, issued, wrongRun>>

\* ---------------------------------------------------------------------- me
\* Me asking for a registered session as well
MeChecksRegistry(s, tok) ==
    /\ req[s].pc = "idle"
    /\ LET r == [IdleReq EXCEPT !.kind = "me", !.token = tok]
       IN  IF \/ tok = NoToken
              \/ ~JwtVerify(tok, JWT_ACCESS_SECRET, now)
              \/ tok.sub \notin DOMAIN db
           THEN Reply(s, r, 401, "Unauthorized", FALSE)
           ELSE IF db[tok.sub].refreshTokens = <<>>
           THEN Reply(s, [r EXCEPT !.uid = tok.sub], 401, "Unauthorized", FALSE)
           ELSE Reply(s, [r EXCEPT !.uid = tok.sub,
                                   !.username = db[tok.sub].username], 200, "user", FALSE)
    /\ UNCHANGED <<songs, now, ticks, db, nextJti, issued, wrongRun, life>>

\* GET /me: verify the access token, load the account
Me(s, tok) ==
    /\ req[s].pc = "idle"
    /\ LET r == [IdleReq EXCEPT !.kind = "me", !.token = tok]
       IN  IF \/ tok = NoToken
              \/ ~JwtVerify(tok, JWT_ACCESS_SECRET, now)
              \/ tok.sub \notin DOMAIN db
           THEN Reply(s, r, 401, "Unauthorized", FALSE)
           ELSE Reply(s, [r EXCEPT !.uid = tok.sub,
                                   !.username = db[tok.sub].username], 200, "user", FALSE)
    /\ UNCHANGED <<songs, now, ticks, db, nextJti, issued, wrongRun, life>>

\* ------------------------------------------------------- auth middleware
\* the access token: the cookie first, else the Authorization: Bearer header
SessionToken(cookie, bearer) == IF cookie # NoToken THEN cookie ELSE bearer

\* the payload jwt.verify hands back
JwtPayload(tok) == [sub |-> tok.sub, username |-> tok.username, roles |-> tok.roles]

\* req.user losing the roles
ReqUserNoRoles(payload) ==
    [id |-> payload.sub, username |-> payload.username, roles |-> <<>>]

\* req.user = { id: payload.sub, username: payload.username, roles: payload.roles || [] }
ReqUser(payload) ==
    [id |-> payload.sub, username |-> payload.username, roles |-> payload.roles]

\* authMiddleware: 401 without a verifiable access token, else req.user
authMiddleware(cookie, bearer, t) ==
    LET tok == SessionToken(cookie, bearer)
    IN  IF tok = NoToken \/ ~JwtVerify(tok, JWT_ACCESS_SECRET, t)
        THEN [status |-> 401, body |-> "Unauthorized", id |-> 0, user |-> NoUser]
        ELSE [status |-> 0, body |-> "", id |-> ReqUser(JwtPayload(tok)).id,
              user |-> ReqUser(JwtPayload(tok))]

\* ---------------------------------------------------------- stream tokens
signStreamToken(userId, songId, ttlSeconds, t) ==
    JwtSign([NoToken EXCEPT !.sub = userId, !.sid = songId], STREAM_SECRET, ttlSeconds, t)

\* verifyStreamToken accepting the token through its expiry second
verifyStreamTokenInclusive(tok, t) ==
    tok.secret = STREAM_SECRET /\ (t \div 1000) <= tok.exp

verifyStreamToken(tok, t) == JwtVerify(tok, STREAM_SECRET, t)

\* Song.exists / Song.findById on the stored songs
SongExists(id) == id \in DOMAIN songs

\* GET /stream-token/:id
StreamToken(s, id, cookie, bearer) ==
    /\ req[s].pc = "idle"
    /\ LET r == [IdleReq EXCEPT !.kind = "stream-token", !.token = SessionToken(cookie, bearer),
                                !.media = id]
           auth == authMiddleware(cookie, bearer, now)
           st == signStreamToken(auth.id, id, STREAM_TTL_SECONDS, now)
       IN  IF auth.status # 0
           THEN Reply(s, r, auth.status, auth.body, FALSE) /\ UNCHANGED issued
           ELSE IF ~SongExists(id)
           THEN /\ resp' = [resp EXCEPT ![s] =
                               [Respond([r EXCEPT !.uid = auth.id], 404, "Song not found",
                                        NoToken, NoToken, FALSE) EXCEPT !.user = auth.user]]
                /\ req' = [req EXCEPT ![s] = IdleReq]
                /\ UNCHANGED issued
           ELSE /\ resp' = [resp EXCEPT ![s] =
                               [Respond([r EXCEPT !.uid = auth.id], 200, "token",
                                        NoToken, NoToken, FALSE)
                                   EXCEPT !.st = st, !.user = auth.user]]
                /\ req' = [req EXCEPT ![s] = IdleReq]
                /\ issued' = issued \cup {st}
    /\ UNCHANGED <<songs, now, ticks, db, nextJti, wrongRun, life>>

\* StreamAuthorize skipping the media check
StreamAuthorizeAnyMedia(id, tok, cookie, bearer, t) ==
    IF tok # NoToken
    THEN IF ~verifyStreamToken(tok, t)
         THEN [status |-> 401, body |-> "Invalid or expired stream token", id |-> 0,
               user |-> NoUser]
         ELSE [status |-> 0, body |-> "", id |-> tok.sub, user |-> NoUser]
    ELSE authMiddleware(cookie, bearer, t)

\* StreamAuthorize trying the session when the stream token does not verify
StreamAuthorizeFallsBack(id, tok, cookie, bearer, t) ==
    IF tok # NoToken /\ verifyStreamToken(tok, t)
    THEN IF tok.sid # id
         THEN [status |-> 403, body |-> "Invalid stream token", id |-> 0, user |-> NoUser]
         ELSE [status |-> 0, body |-> "", id |-> tok.sub, user |-> NoUser]
    ELSE authMiddleware(cookie, bearer, t)

\* GET /stream/:id, who is asking: the stream token first, else the session
StreamAuthorize(id, tok, cookie, bearer, t) ==
    IF tok # NoToken
    THEN IF ~verifyStreamToken(tok, t)
         THEN [status |-> 401, body |-> "Invalid or expired stream token", id |-> 0,
               user |-> NoUser]
         ELSE IF tok.sid # id
         THEN [status |-> 403, body |-> "Invalid stream token", id |-> 0, user |-> NoUser]
         ELSE [status |-> 0, body |-> "", id |-> tok.sub, user |-> NoUser]
    ELSE authMiddleware(cookie, bearer, t)

\* headers = clientRange ? { Range: clientRange } : {}
UpstreamHeaders(range) == IF range THEN {"Range"} ELSE {}

\* Relay answering 200 to every successful fetch
RelayAlwaysFull(range, upstream) ==
    CASE upstream = "throw" ->
             [status |-> 500, body |-> "Internal server error", headers |-> {}]
      [] upstream = "bad" ->
             [status |-> 502, body |-> "Failed to fetch audio", headers |-> {}]
      [] OTHER -> [status |-> 200, body |-> "bytes", headers |-> {"Content-Length"}]

\* GET /stream/:id, the fetch from storage and the relay: a throwing fetch
\* lands in the route's catch; a status that is neither ok nor 206 is a 502;
\* else 206 when the client sent a range and storage a Content-Range, else 200
Relay(range, upstream) ==
    CASE upstream = "throw" ->
             [status |-> 500, body |-> "Internal server error", headers |-> {}]
      [] upstream = "bad" ->
             [status |-> 502, body |-> "Failed to fetch audio", headers |-> {}]
      [] upstream = "partial" ->
             [status |-> IF range THEN 206 ELSE 200, body |-> "bytes",
              headers |-> {"Content-Length", "Content-Range"}]
      [] OTHER -> [status |-> 200, body |-> "bytes", headers |-> {"Content-Length"}]

\* GET /stream/:id
Stream(s, id, tok, cookie, bearer, range, upstream) ==
    /\ req[s].pc = "idle"
    /\ LET r == [IdleReq EXCEPT !.kind = "stream", !.token = tok, !.media = id]
           auth == StreamAuthorize(id, tok, cookie, bearer, now)
           out == Relay(range, upstream)
           answer == IF auth.status # 0 THEN Respond(r, auth.status, auth.body,
                                                     NoToken, NoToken, FALSE)
                     ELSE IF auth.id = 0
                     THEN Respond(r, 401, "Unauthorized - no valid token",
                                  NoToken, NoToken, FALSE)
                     ELSE IF ~SongExists(id)
                     THEN Respond(r, 404, "Song not found", NoToken, NoToken, FALSE)
                     ELSE [Respond(r, out.status, out.body, NoToken, NoToken, FALSE)
                              EXCEPT !.relayed = IF out.status \in {200, 206} THEN id ELSE "",
                                     !.fetched = songs[id].url,
                                     !.forwarded = UpstreamHeaders(range),
                                     !.range = range,
                                     !.upstream = upstream,
                                     !.headers = out.headers]
       IN  /\ resp' = [resp EXCEPT ![s] = [answer EXCEPT !.at = SessionToken(cookie, bearer),
                                                         !.time = now,
                                                         !.user = auth.user]]
           /\ req' = [req EXCEPT ![s] = IdleReq]
    /\ UNCHANGED <<songs, now, ticks, db, nextJti, issued, wrongRun, life>>

\* ------------------------------------------------------------ media library
\* what Cloudinary hands back for an uploaded song
SecureUrl(id) ==
    CASE id = "songA" -> "https://res.cloudinary.com/songs/songA"
      [] id = "songB" -> "https://res.cloudinary.com/songs/songB"
      [] OTHER -> "https://res.cloudinary.com/songs/other"

PublicId(id) ==
    CASE id = "songA" -> "songs/songA"
      [] id = "songB" -> "songs/songB"
      [] OTHER -> "songs/other"

\* Song.create({ title, artist, album, cover, url, publicId, uploadedBy })
NewSong(id, title, uploader) ==
    [id |-> id, title |-> title, artist |-> "Unknown Artist", album |-> "Singles",
     cover |-> "", url |-> SecureUrl(id), publicId |-> PublicId(id),
     uploadedBy |-> uploader]

\* the paths the schema marks select: false
Hidden == {"url", "publicId"}

\* a document without some of its paths
Without(doc, paths) == [f \in (DOMAIN doc) \ paths |-> doc[f]]

\* a query result: the hidden paths are left out unless selected with "+path"
Select(doc, plus) == Without(doc, Hidden \ plus)

\* PublicView keeping the url
PublicViewWithUrl(doc) == Without(doc, {"publicId"})

\* toObject(), delete .url, delete .publicId
PublicView(doc) == Without(doc, Hidden)

\* the id the database gives the next song
FreshSongIds == IF "songA" \notin DOMAIN songs THEN {"songA"}
                ELSE SongIds \ DOMAIN songs

\* POST /upload: authMiddleware, multer, Cloudinary, Song.create
Upload(s, cookie, bearer, file, title, cloud) ==
    /\ req[s].pc = "idle"
    /\ LET r == [IdleReq EXCEPT !.kind = "upload", !.token = SessionToken(cookie, bearer)]
           auth == authMiddleware(cookie, bearer, now)
           ru == [r EXCEPT !.uid = auth.id]
       IN  IF auth.status # 0
           THEN Reply(s, r, auth.status, auth.body, FALSE) /\ UNCHANGED songs
           ELSE IF file = "too large"
           THEN Reply(s, ru, 413, "File too large. Max size is 20MB", FALSE) /\ UNCHANGED songs
           ELSE IF file = "rejected"
           THEN Reply(s, ru, 400, "Unexpected field", FALSE) /\ UNCHANGED songs
           ELSE IF file = "none"
           THEN Reply(s, ru, 400, "No song file uploaded", FALSE) /\ UNCHANGED songs
           ELSE IF auth.id \notin DOMAIN db
           THEN Reply(s, ru, 404, "User not found", FALSE) /\ UNCHANGED songs
           ELSE IF cloud = "throw" \/ FreshSongIds = {}
           THEN Reply(s, ru, 500, "Upload failed", FALSE) /\ UNCHANGED songs
           ELSE \E id \in FreshSongIds :
                   LET newSong == NewSong(id, title, auth.id)
                   IN  /\ songs' = (songs @@ (id :> newSong))
                       /\ resp' = [resp EXCEPT ![s] =
                                      [Respond([ru EXCEPT !.media = id], 200, "Song uploaded",
                                               NoToken, NoToken, FALSE)
                                          EXCEPT !.docs = {PublicView(newSong)}]]
                       /\ req' = [req EXCEPT ![s] = IdleReq]
    /\ UNCHANGED <<now, ticks, db, nextJti, issued, wrongRun, life>>

\* the answer of a list route
Listing(s, kind, ids, status, body) ==
    /\ resp' = [resp EXCEPT ![s] =
                   [Respond([IdleReq EXCEPT !.kind = kind], status, body,
                            NoToken, NoToken, FALSE)
                       EXCEPT !.docs = {Select(songs[id], {}) : id \in ids}]]
    /\ req' = [req EXCEPT ![s] = IdleReq]

\* GET /: Song.find().select("-url -publicId")
List(s) ==
    /\ req[s].pc = "idle"
    /\ Listing(s, "list", DOMAIN songs, 200, "songs")
    /\ UNCHANGED <<songs, now, ticks, db, nextJti, issued, wrongRun, life>>

\* GET /search?q=: title, artist or album matching q
Search(s, q) ==
    /\ req[s].pc = "idle"
    /\ LET hits == {id \in DOMAIN songs :
                       q \in {songs[id].title, songs[id].artist, songs[id].album}}
       IN  IF q = "" THEN Listing(s, "search", {}, 200, "songs")
           ELSE Listing(s, "search", hits, 200, "songs")
    /\ UNCHANGED <<songs, now, ticks, db, nextJti, issued, wrongRun, life>>

\* GET /album/:albumName
Album(s, albumName) ==
    /\ req[s].pc = "idle"
    /\ LET hits == {id \in DOMAIN songs : songs[id].album = albumName}
       IN  IF hits = {} THEN Listing(s, "album", {}, 404, "No songs found for this album")
           ELSE Listing(s, "album", hits, 200, "songs")
    /\ UNCHANGED <<songs, now, ticks, db, nextJti, issued, wrongRun, life>>

\* Object.assign(song, update)
Assign(doc, update) ==
    [f \in (DOMAIN doc) \cup (DOMAIN update) |->
        IF f \in DOMAIN update THEN update[f] ELSE doc[f]]

\* PATCH /:id: the body without url and publicId is assigned to the song
Update(s, id, cookie, bearer, body) ==
    /\ req[s].pc = "idle"
    /\ LET r == [IdleReq EXCEPT !.kind = "update", !.token = SessionToken(cookie, bearer),
                                !.media = id]
           auth == authMiddleware(cookie, bearer, now)
           ru == [r EXCEPT !.uid = auth.id]
           update == Without(body, Hidden)
       IN  IF auth.status # 0
           THEN Reply(s, r, auth.status, auth.body, FALSE) /\ UNCHANGED songs
           ELSE IF ~SongExists(id)
           THEN Reply(s, ru, 404, "Song not found", FALSE) /\ UNCHANGED songs
           ELSE IF auth.id \notin DOMAIN db
           THEN Reply(s, ru, 500, "Failed to update song", FALSE) /\ UNCHANGED songs
           ELSE IF songs[id].uploadedBy # auth.id /\ "admin" \notin
                      {db[auth.id].roles[i] : i \in DOMAIN db[auth.id].roles}
           THEN Reply(s, ru, 403, "Not authorized", FALSE) /\ UNCHANGED songs
           ELSE LET song == Assign(Select(songs[id], {}), update)
                IN  /\ songs' = [songs EXCEPT ![id] = Assign(@, update)]
                    /\ resp' = [resp EXCEPT ![s] =
                                   [Respond(ru, 200, "Song updated", NoToken, NoToken, FALSE)
                                       EXCEPT !.docs = {PublicView(song)}]]
                    /\ req' = [req EXCEPT ![s] = IdleReq]
    /\ UNCHANGED <<now, ticks, db, nextJti, issued, wrongRun, life>>

\* -------------------------------------------------------------------- time
\* the last instant inside a 15-minute window, and the first one past it
AuthDeltas == {LOCK_MS - 1, LOCK_MS}

\* the clock stops at the horizon
MaxNow == 2 * REFRESH_TTL_MS

Tick(D) ==
    /\ ticks < MaxTicks
    /\ \E d \in D : now + d <= MaxNow /\ now' = now + d
    /\ ticks' = ticks + 1
    /\ UNCHANGED <<songs, db, nextJti, issued, req, resp, wrongRun, life>>

\* ------------------------------------------------------------ specifications
\* requests handled one at a time, the clock standing still
Next ==
    \/ \E u \in Usernames, p \in Passwords : Quiet /\ Register(1, u, p)
    \/ RegisterCreate(1)
    \/ RegisterPush(1)
    \/ \E u \in Usernames, p \in Passwords, ip \in Ips : Quiet /\ Login(1, u, p, ip)
    \/ LoginFinish(1)
    \/ \E tok \in Presentable, ip \in Ips : Quiet /\ Refresh(1, tok, ip)
    \/ RefreshFinish(1)
    \/ \E tok \in Presentable : Quiet /\ Logout(1, tok)
    \/ LogoutFinish(1)
    \/ \E tok \in Presentable : Quiet /\ Me(1, tok)

Spec == Init /\ [][Next]_vars

\* registration and login, one request at a time, with the clock running
NextClock ==
    \/ \E u \in Usernames, p \in Passwords : Quiet /\ Register(1, u, p)
    \/ RegisterCreate(1)
    \/ RegisterPush(1)
    \/ \E u \in Usernames, p \in Passwords, ip \in Ips : Quiet /\ Login(1, u, p, ip)
    \/ LoginFinish(1)
    \/ Tick(AuthDeltas)

SpecClock == Init /\ [][NextClock]_vars

\* the last instant inside a stream token's minute, and the first one past it
StreamDeltas == {STREAM_TTL_SECONDS * 1000 - 1, STREAM_TTL_SECONDS * 1000}

MediaIds == SongIds \cup {"gone"}

\* what a client can put in the t parameter, and in the cookie or the header
StreamTokens == {t \in issued : t.secret = STREAM_SECRET} \cup {NoToken, ForgedToken}
Sessions == {t \in issued : t.secret = JWT_ACCESS_SECRET} \cup {NoToken, ForgedToken}

\* a registered session asking for stream tokens and streaming, the clock
\* running, storage answering every fetch in full
NextStream ==
    \/ \E u \in Usernames, p \in Passwords : Quiet /\ Register(1, u, p)
    \/ RegisterCreate(1)
    \/ RegisterPush(1)
    \/ \E id \in MediaIds, session \in Sessions :
          \/ StreamToken(1, id, session, NoToken)
          \/ StreamToken(1, id, NoToken, session)
    \/ \E id \in MediaIds, tok \in StreamTokens, session \in Sessions, range \in BOOLEAN :
          Stream(1, id, tok, session, NoToken, range, "ok")
    \/ \E session \in Sessions : Upload(1, session, NoToken, "song", "tune", "ok")
    \/ Tick(StreamDeltas)

SpecStream == Init /\ [][NextStream]_vars

\* what storage can answer: a 206 only to a request that carried a Range
Answers(range) == IF range THEN Upstreams ELSE Upstreams \ {"partial"}

Files == {"song", "none", "too large", "rejected"}
Titles == {"tune"}
Clouds == {"ok", "throw"}
Queries == {"", "tune", "Singles", "nothing"}
Bodies == {[title |-> "renamed"],
           [title |-> "renamed", url |-> "https://evil.example/x", publicId |-> "x"]}

\* the media routes, one request at a time, the clock standing still and
\* storage answering in every way it can
NextMedia ==
    \/ \E u \in Usernames, p \in Passwords : Quiet /\ Register(1, u, p)
    \/ RegisterCreate(1)
    \/ RegisterPush(1)
    \/ \E session \in Sessions, file \in Files, title \in Titles, cloud \in Clouds :
          Upload(1, session, NoToken, file, title, cloud)
    \/ List(1)
    \/ \E q \in Queries : Search(1, q)
    \/ \E a \in Queries : Album(1, a)
    \/ \E id \in MediaIds, session \in Sessions, body \in Bodies :
          Update(1, id, session, NoToken, body)
    \/ \E id \in MediaIds, session \in Sessions : StreamToken(1, id, session, NoToken)
    \/ \E id \in MediaIds, tok \in StreamTokens, session \in Sessions, range \in BOOLEAN :
          \E upstream \in Answers(range) :
             \/ Stream(1, id, tok, session, NoToken, range, upstream)
             \/ Stream(1, id, tok, NoToken, session, range, upstream)

SpecMedia == Init /\ [][NextMedia]_vars

\* logins of two clients for one account interleaved at their awaits
NextLoginRace ==
    \/ \E u \in Usernames, p \in Passwords : Quiet /\ Register(1, u, p)
    \/ RegisterCreate(1)
    \/ RegisterPush(1)
    \/ \E s \in Slots, u \in Usernames, p \in Passwords, ip \in Ips : Login(s, u, p, ip)
    \/ \E s \in Slots : LoginFinish(s)

SpecLoginRace == Init /\ [][NextLoginRace]_vars

\* refreshes of two clients interleaved at their awaits
NextRefreshRace ==
    \/ \E u \in Usernames, p \in Passwords : Quiet /\ Register(1, u, p)
    \/ RegisterCreate(1)
    \/ RegisterPush(1)
    \/ \E u \in Usernames, p \in Passwords, ip \in Ips : Quiet /\ Login(1, u, p, ip)
    \/ LoginFinish(1)
    \/ \E s \in Slots, tok \in DOMAIN life, ip \in Ips : Refresh(s, tok, ip)
    \/ \E s \in Slots : RefreshFinish(s)

SpecRefreshRace == Init /\ [][NextRefreshRace]_vars

\* the whole lifetime of a refresh token, one step
RefreshDeltas == {REFRESH_TTL_MS}

\* a refresh token this server signed for an account that is no longer stored
OrphanToken == signRefreshToken(9, 0, 0)

\* what a client can put in the refresh cookie
RefreshCookies == DOMAIN life \cup {NoToken, ForgedToken, OrphanToken}

\* refreshes and logouts of two clients interleaved at their awaits, the clock
\* running
NextLogoutRace ==
    \/ \E u \in Usernames, p \in Passwords : Quiet /\ Register(1, u, p)
    \/ RegisterCreate(1)
    \/ RegisterPush(1)
    \/ \E s \in Slots, tok \in RefreshCookies, ip \in Ips : Refresh(s, tok, ip)
    \/ \E s \in Slots : RefreshFinish(s)
    \/ \E s \in Slots, tok \in RefreshCookies : Logout(s, tok)
    \/ \E s \in Slots : LogoutFinish(s)
    \/ Tick(RefreshDeltas)

SpecLogoutRace == Init /\ [][NextLogoutRace]_vars

\* every protected route offered every kind of token this server has signed,
\* one request at a time, the clock standing still
NextKinds ==
    \/ \E u \in Usernames, p \in Passwords : Quiet /\ Register(1, u, p)
    \/ RegisterCreate(1)
    \/ RegisterPush(1)
    \/ \E tok \in Presentable : Quiet /\ Upload(1, tok, NoToken, "song", "tune", "ok")
    \/ \E id \in MediaIds, tok \in Presentable :
          /\ Quiet
          /\ \/ StreamToken(1, id, tok, NoToken)
             \/ StreamToken(1, id, NoToken, tok)
    \/ \E tok \in Presentable, ip \in Ips : Quiet /\ Refresh(1, tok, ip)
    \/ RefreshFinish(1)
    \/ \E tok \in Presentable : Quiet /\ Logout(1, tok)
    \/ LogoutFinish(1)
    \/ \E tok \in Presentable : Quiet /\ Me(1, tok)

SpecKinds == Init /\ [][NextKinds]_vars

\* the whole length of a lock, one step
GuardDeltas == {LOCK_MS}

\* every account route, one request at a time, with the clock running
NextGuard ==
    \/ \E u \in Usernames, p \in Passwords : Quiet /\ Register(1, u, p)
    \/ RegisterCreate(1)
    \/ RegisterPush(1)
    \/ \E u \in Usernames, p \in Passwords, ip \in Ips : Quiet /\ Login(1, u, p, ip)
    \/ LoginFinish(1)
    \/ \E tok \in DOMAIN life, ip \in Ips : Quiet /\ Refresh(1, tok, ip)
    \/ RefreshFinish(1)
    \/ \E tok \in DOMAIN life : Quiet /\ Logout(1, tok)
    \/ LogoutFinish(1)
    \/ Quiet /\ Tick(GuardDeltas)

SpecGuard == Init /\ [][NextGuard]_vars

\* the last instant inside an access token's 15 minutes, and the first one
\* past them
AccessDeltas == {ACCESS_TTL_SECONDS * 1000 - 1, ACCESS_TTL_SECONDS * 1000}

\* sessions rotated, logged out and revoked while their access tokens are
\* presented to /me and to a route behind authMiddleware, the clock running
NextAccess ==
    \/ \E u \in Usernames, p \in Passwords : Quiet /\ Register(1, u, p)
    \/ RegisterCreate(1)
    \/ RegisterPush(1)
    \/ \E tok \in DOMAIN life, ip \in Ips : Quiet /\ Refresh(1, tok, ip)
    \/ RefreshFinish(1)
    \/ \E tok \in DOMAIN life : Quiet /\ Logout(1, tok)
    \/ LogoutFinish(1)
    \/ \E tok \in Sessions : Quiet /\ Me(1, tok)
    \/ \E tok \in Sessions : Quiet /\ Upload(1, tok, NoToken, "none", "tune", "ok")
    \/ Quiet /\ Tick(AccessDeltas)

SpecAccess == Init /\ [][NextAccess]_vars

\* a registration is under way
Registering == \E s \in Slots : req[s].pc \in {"reg_create", "reg_push"}

\* logins, refreshes and logouts of two clients of one registered account
\* interleaved at their awaits, the clock standing still
NextSessionRace ==
    \/ Quiet /\ Register(1, "alice", "secret123")
    \/ RegisterCreate(1)
    \/ RegisterPush(1)
    \/ \E s \in Slots, ip \in Ips : ~Registering /\ Login(s, "alice", "secret123", ip)
    \/ \E s \in Slots : LoginFinish(s)
    \/ \E s \in Slots, tok \in DOMAIN life, ip \in Ips : ~Registering /\ Refresh(s, tok, ip)
    \/ \E s \in Slots : RefreshFinish(s)
    \/ \E s \in Slots, tok \in DOMAIN life : ~Registering /\ Logout(s, tok)
    \/ \E s \in Slots : LogoutFinish(s)

SpecSessionRace == Init /\ [][NextSessionRace]_vars

\* the usernames of two clients
TwoUsernames == {"alice", "bob"}

\* two accounts, every account route, one request at a time, the clock
\* standing still
NextTwoAccounts ==
    \/ \E u \in TwoUsernames : Quiet /\ Register(1, u, "secret123")
    \/ RegisterCreate(1)
    \/ RegisterPush(1)
    \/ \E u \in TwoUsernames, p \in Passwords, ip \in Ips : Quiet /\ Login(1, u, p, ip)
    \/ LoginFinish(1)
    \/ \E tok \in DOMAIN life, ip \in Ips : Quiet /\ Refresh(1, tok, ip)
    \/ RefreshFinish(1)
    \/ \E tok \in DOMAIN life : Quiet /\ Logout(1, tok)
    \/ LogoutFinish(1)

SpecTwoAccounts == Init /\ [][NextTwoAccounts]_vars

\* the names two clients register with: one name twice over, and another
RaceUsernames == Usernames \cup TwoUsernames

\* registrations of two clients interleaved at their awaits
NextRegisterRace ==
    \/ \E s \in Slots, u \in RaceUsernames, p \in Passwords : Register(s, u, p)
    \/ \E s \in Slots : RegisterCreate(s)
    \/ \E s \in Slots : RegisterPush(s)

SpecRegisterRace == Init /\ [][NextRegisterRace]_vars

\* ------------------------------------------------------------------ claims
\* what a client has seen of its latest request: the response, or nothing yet
Seen(s) ==
    IF req[s].pc = "idle" THEN resp[s]
    ELSE Respond(req[s], 0, "", NoToken, NoToken, FALSE)

RightPassword(x) == x.uid # 0 /\ db[x.uid].passwordHash = <<"argon2id", x.password>>

LockedBody == "Account temporarily locked. Try later."

\* the reply to a failed credential check that completed a run of five
FifthFailure(x) ==
    /\ x.kind = "login"
    /\ x.uid # 0
    /\ x.status # 0
    /\ x.lock # "locked"
    /\ ~RightPassword(x)
    /\ wrongRun[x.uid] = 5

\* C1: with requests handled one at a time, the fifth failed credential check
\* in a row (counted from the account's creation, its last successful login or
\* its last lock) stamps lockUntil with the time of that check plus 15 minutes,
\* and every login that arrives while now < lockUntil is answered 403
\* "temporarily locked" without reaching the credential check, whatever its
\* password.
C1_LockAfterFive ==
    [][\A s \in Slots :
          /\ (Seen(s)'.kind = "login" /\ Seen(s)'.lock = "locked")
                => (Seen(s)'.status = 403 /\ Seen(s)'.body = LockedBody)
          /\ (req[s].pc = "login_verify" /\ FifthFailure(resp[s])')
                => db'[resp'[s].uid].lockUntil = now + LOCK_MS]_vars

C1_Witness ==
    \E s \in Slots :
        /\ resp[s].kind = "login"
        /\ resp[s].lock = "locked"
        /\ RightPassword(resp[s])
        /\ resp[s].status = 403
        /\ wrongRun[resp[s].uid] = 5

\* C2: a login with the right password that arrives when the account's
\* lockUntil has passed (now >= lockUntil) is answered 200 with a newly minted
\* access and refresh token, and leaves failedLoginAttempts = 0 and lockUntil
\* cleared; no other request is needed to lift the lock.
C2_LockLifts ==
    \A s \in Slots :
        (resp[s].kind = "login" /\ resp[s].lock = "expired" /\ RightPassword(resp[s]))
            => /\ resp[s].status = 200
               /\ resp[s].at.secret = JWT_ACCESS_SECRET
               /\ resp[s].rt \in DOMAIN life
               /\ life[resp[s].rt].origin = "login"
               /\ db[resp[s].uid].failedLoginAttempts = 0
               /\ db[resp[s].uid].lockUntil = Null

C2_Witness ==
    \E s \in Slots :
        /\ resp[s].kind = "login"
        /\ resp[s].lock = "expired"
        /\ RightPassword(resp[s])
        /\ resp[s].status = 200

\* C3 as claimed: the reply to the fifth wrong-password login in a row is the
\* 403 "temporarily locked" response.
C3_FifthIsLocked ==
    \A s \in Slots : FifthFailure(resp[s]) => resp[s].status = 403

\* C3 amended: the reply to the fifth wrong-password login in a row is still
\* 401 "Invalid credentials", and it leaves the account locked; a login with
\* the right password arriving within the lock is answered 403 "temporarily
\* locked".
C3_FifthLocksSixthRejected ==
    \A s \in Slots :
        /\ FifthFailure(resp[s])
              => /\ resp[s].status = 401
                 /\ resp[s].body = "Invalid credentials"
                 /\ db[resp[s].uid].lockUntil # Null
        /\ (/\ Seen(s).kind = "login"
            /\ Seen(s).lock = "locked"
            /\ RightPassword(Seen(s))
            /\ wrongRun[Seen(s).uid] = 5)
              => (Seen(s).status = 403 /\ Seen(s).body = LockedBody)

C3_Witness ==
    \E s \in Slots :
        /\ FifthFailure(resp[s])
        /\ db[resp[s].uid].lockUntil = now + LOCK_MS

Invalidated(x) == x.status = 401 /\ x.body = "Session invalidated" /\ x.cleared

Hashes(records) == {records[i].tokenHash : i \in DOMAIN records}

\* C4: with requests handled one at a time, a refresh token that verifies and
\* has never been presented is rotated on its first presentation (200, a new
\* pair); presented again it is answered 401 "Session invalidated" with the
\* cookies cleared, and that leaves the account's refresh registry empty; every
\* token of the account that the replay revoked is answered the same way.
C4_ReplayRevokesFamily ==
    \A s \in Slots :
        /\ (resp[s].kind = "refresh" /\ resp[s].was = "live")
              => /\ resp[s].status = 200
                 /\ resp[s].rt \in DOMAIN life
                 /\ life[resp[s].token].state = "consumed"
        /\ (resp[s].kind = "refresh" /\ resp[s].was \in {"consumed", "revoked"})
              => /\ Invalidated(resp[s])
                 /\ db[resp[s].uid].refreshTokens = <<>>
                 /\ \A t \in TokensOf(resp[s].uid) : life[t].state # "live"

C4_Witness ==
    \E s \in Slots :
        /\ resp[s].kind = "refresh"
        /\ resp[s].was = "consumed"
        /\ Invalidated(resp[s])
        /\ \E t \in TokensOf(resp[s].uid) :
              life[t].state = "revoked" /\ life[t].origin = "login"

\* C5: once a rotated-away token T0 has been presented a second time (answered
\* "Session invalidated"), the token T1 that the first refresh of T0 handed out
\* is rejected as well: presenting T1 yields 401 and no new pair.
C5_ChildOfReplayedRejected ==
    \A s \in Slots :
        (/\ resp[s].kind = "refresh"
         /\ resp[s].was = "revoked"
         /\ life[resp[s].token].origin = "refresh")
            => /\ resp[s].status = 401
               /\ resp[s].rt = NoToken
               /\ resp[s].at = NoToken
               /\ \E t0 \in TokensOf(resp[s].uid) : life[t0].state = "consumed"

C5_Witness ==
    \E s \in Slots :
        /\ resp[s].kind = "refresh"
        /\ resp[s].was = "revoked"
        /\ life[resp[s].token].origin = "refresh"
        /\ resp[s].status = 401
        /\ \E t0 \in TokensOf(resp[s].uid) :
              life[t0].state = "consumed" /\ life[t0].origin = "login"

\* C6: every successful refresh removes exactly the record of the presented
\* token and appends exactly one record, that of the new refresh token: the
\* account keeps as many records as before, its other records are untouched
\* and in place, and no record ever again carries the hash of a token that was
\* rotated away.
C6_StrictRotation ==
    [][\A s \in Slots :
          /\ (req[s].pc = "refresh_rotate" /\ resp'[s].status = 200)
                => LET old == db[req[s].uid].refreshTokens
                       new == db'[req[s].uid].refreshTokens
                       h == <<"sha256", req[s].token>>
                   IN  /\ Len(new) = Len(old)
                       /\ Cardinality({i \in DOMAIN old : old[i].tokenHash = h}) = 1
                       /\ \A i \in 1..(Len(new) - 1) :
                              new[i] = old[IF \A j \in 1..i : old[j].tokenHash # h
                                           THEN i ELSE i + 1]
                       /\ new[Len(new)].tokenHash = <<"sha256", resp'[s].rt>>
                       /\ resp'[s].rt # req[s].token
                       /\ \A u \in DOMAIN db : u # req[s].uid => db'[u] = db[u]
          /\ \A t \in DOMAIN life' :
                life'[t].state = "consumed"
                   => <<"sha256", t>> \notin Hashes(db'[life'[t].uid].refreshTokens)]_vars

C6_Witness ==
    \E s \in Slots :
        /\ resp[s].kind = "refresh"
        /\ resp[s].status = 200
        /\ Len(db[resp[s].uid].refreshTokens) >= 2
        /\ life[resp[s].token].state = "consumed"

\* two clients presented the same live refresh token before either was answered
SameTokenRace(s, t) ==
    /\ s # t
    /\ resp[s].kind = "refresh"
    /\ resp[t].kind = "refresh"
    /\ resp[s].token = resp[t].token
    /\ resp[s].was = "live"
    /\ resp[t].was = "live"

\* C7: when two refreshes presenting the same token run concurrently, whatever
\* the interleaving of their loads and saves, one of them is answered 200 with
\* a new pair and the other finds no record and is answered as a reuse
\* ("Session invalidated", the registry revoked).
C7_OneWinsOtherRevokes ==
    \A s, t \in Slots :
        SameTokenRace(s, t)
            => \/ resp[s].status = 200 /\ Invalidated(resp[t])
               \/ resp[t].status = 200 /\ Invalidated(resp[s])

\* C8: when wrong-password logins for one account run concurrently, no failed
\* credential check is lost: once five of them have completed since the last
\* successful login, the account carries a lock.
C8_NoLostFailure ==
    \A u \in DOMAIN db : wrongRun[u] >= 5 => db[u].lockUntil # Null

Authorized(x) == x.status \notin {401, 403}

\* C9: a stream request that presents a verifying, unexpired stream token
\* minted for another media id than the one requested is answered 403 and
\* relays nothing, whether or not a valid session comes with it.
C9_TokenBoundToMedia ==
    \A s \in Slots :
        (/\ resp[s].kind = "stream"
         /\ resp[s].token.secret = STREAM_SECRET
         /\ (resp[s].time \div 1000) < resp[s].token.exp
         /\ resp[s].token.sid # resp[s].media)
            => /\ resp[s].status = 403
               /\ resp[s].relayed = ""

C9_Witness ==
    \E s \in Slots :
        /\ resp[s].kind = "stream"
        /\ resp[s].token.secret = STREAM_SECRET
        /\ resp[s].token.sid = "songA"
        /\ resp[s].media = "songB"
        /\ resp[s].at.secret = JWT_ACCESS_SECRET
        /\ (resp[s].time \div 1000) < resp[s].at.exp
        /\ resp[s].status = 403

\* C10 as claimed: a stream token for the requested media is accepted at every
\* time up to and including its expiry instant and rejected after it.
C10_AcceptedThroughExpiry ==
    \A s \in Slots :
        (/\ resp[s].kind = "stream"
         /\ resp[s].token.secret = STREAM_SECRET
         /\ resp[s].token.sid = resp[s].media)
            => (Authorized(resp[s]) <=> resp[s].time <= resp[s].token.exp * 1000)

\* C10 amended: a stream token for the requested media, minted in second iat
\* with a TTL of n seconds, is accepted at every time before second iat + n
\* and rejected (401) from the expiry instant iat + n on.
C10_AcceptedBeforeExpiry ==
    \A s \in Slots :
        (/\ resp[s].kind = "stream"
         /\ resp[s].token.secret = STREAM_SECRET
         /\ resp[s].token.sid = resp[s].media)
            => /\ resp[s].token.exp = resp[s].token.iat + STREAM_TTL_SECONDS
               /\ Authorized(resp[s]) <=> resp[s].time < resp[s].token.exp * 1000
               /\ ~Authorized(resp[s]) => resp[s].status = 401

C10_Witness ==
    \E s \in Slots :
        /\ resp[s].kind = "stream"
        /\ resp[s].token.secret = STREAM_SECRET
        /\ resp[s].token.sid = resp[s].media
        /\ resp[s].time = resp[s].token.exp * 1000
        /\ resp[s].status = 401

\* C11: every access token handed out carries the id, the username and the
\* roles of the account it was issued for, and a request that passes the auth
\* middleware with such a token (unexpired, access secret) runs with req.user
\* equal to exactly those three values.
C11_AccessRoundTrip ==
    /\ \A t \in issued :
            t.secret = JWT_ACCESS_SECRET
                => /\ t.sub \in DOMAIN db
                   /\ JwtPayload(t) = [sub |-> t.sub, username |-> db[t.sub].username,
                                       roles |-> db[t.sub].roles]
    /\ \A s \in Slots :
            (resp[s].kind = "stream-token" /\ resp[s].status # 401)
                => /\ resp[s].token \in issued
                   /\ resp[s].user = [id |-> resp[s].token.sub,
                                      username |-> db[resp[s].token.sub].username,
                                      roles |-> db[resp[s].token.sub].roles]

C11_Witness ==
    \E s \in Slots :
        /\ resp[s].kind = "stream-token"
        /\ resp[s].status = 200
        /\ resp[s].user = [id |-> 1, username |-> "alice", roles |-> <<"user">>]

\* what the caller gets back: status, message, cookies
Visible(x) == [status |-> x.status, body |-> x.body, at |-> x.at, rt |-> x.rt,
               cleared |-> x.cleared]

UnknownUserLogin(x) == x.kind = "login" /\ x.status # 0 /\ x.uid = 0

WrongPasswordLogin(x) == x.kind = "login" /\ x.status # 0 /\ x.uid # 0 /\ ~RightPassword(x)

\* C12 as claimed: a failed login with an unknown username and a failed login
\* with a wrong password for an existing username get the same response, so a
\* failed login never tells whether the username exists.
C12_FailedLoginsAlike ==
    \A s, t \in Slots :
        (UnknownUserLogin(resp[s]) /\ WrongPasswordLogin(resp[t]))
            => Visible(resp[s]) = Visible(resp[t])

\* C12 amended: a login with an unknown username and a wrong-password login
\* that reaches the credential check (the account is not locked) get the same
\* response, 401 "Invalid credentials" without cookies; a wrong-password login
\* on a locked account gets 403 "temporarily locked", which an unknown
\* username never gets.
C12_UnlockedFailuresAlike ==
    \A s, t \in Slots :
        /\ (UnknownUserLogin(resp[s]) /\ WrongPasswordLogin(resp[t])
               /\ resp[t].lock # "locked")
              => /\ Visible(resp[s]) = Visible(resp[t])
                 /\ resp[s].status = 401
                 /\ resp[s].body = "Invalid credentials"
        /\ (WrongPasswordLogin(resp[t]) /\ resp[t].lock = "locked")
              => resp[t].status = 403
        /\ UnknownUserLogin(resp[s]) => resp[s].status # 403

C12_Witness ==
    \E s, t \in Slots :
        /\ UnknownUserLogin(resp[s])
        /\ WrongPasswordLogin(resp[t])
        /\ resp[t].lock # "locked"
        /\ resp[s].username = resp[t].username
        /\ Visible(resp[s]) = Visible(resp[t])

\* C13: with requests handled one at a time, the step of a logout that saves
\* (refresh token present and verifiable, account found) takes out of the
\* account's registry the records whose hash is the presented token's, at most
\* one, keeps every other record in order, and leaves failedLoginAttempts,
\* lockUntil, the password hash and every other account as they were.
C13_LogoutRemovesOnlyItsRecord ==
    [][\A s \in Slots :
          req[s].pc = "logout_save" /\ req'[s].pc = "idle"
            => LET u == req[s].uid
                   h == <<"sha256", req[s].token>>
                   Others(rec) == rec.tokenHash # h
               IN  /\ db'[u].refreshTokens = SelectSeq(db[u].refreshTokens, Others)
                   /\ Len(db'[u].refreshTokens) >= Len(db[u].refreshTokens) - 1
                   /\ db'[u].failedLoginAttempts = db[u].failedLoginAttempts
                   /\ db'[u].lockUntil = db[u].lockUntil
                   /\ db'[u].passwordHash = db[u].passwordHash
                   /\ \A v \in DOMAIN db : v # u => db'[v] = db[v]
                   /\ resp'[s].status = 200]_vars

\* a logout took its record out and another device's record is still there
C13_Witness ==
    \E s \in Slots :
        /\ resp[s].kind = "logout"
        /\ resp[s].token \in DOMAIN life
        /\ life[resp[s].token].state = "loggedout"
        /\ db[life[resp[s].token].uid].refreshTokens # <<>>
        /\ \A i \in DOMAIN db[life[resp[s].token].uid].refreshTokens :
               db[life[resp[s].token].uid].refreshTokens[i].tokenHash
                   # <<"sha256", resp[s].token>>

\* C14: every answer to a logout is 200 "Logged out" with both cookies
\* cleared: without a refresh cookie, with one that does not verify (forged or
\* expired), with one of an account that is not found, and when the save of
\* the registry throws.
C14_LogoutAlwaysClears ==
    \A s \in Slots :
        resp[s].kind = "logout"
            => /\ resp[s].status = 200
               /\ resp[s].body = "Logged out"
               /\ resp[s].cleared

\* one logout answered after its save threw, another answered on an expired token
C14_Witness ==
    \E s, t \in Slots :
        /\ resp[s].kind = "logout"
        /\ resp[s].was = "save failed"
        /\ resp[s].cleared
        /\ resp[t].kind = "logout"
        /\ resp[t].token.secret = JWT_REFRESH_SECRET
        /\ resp[t].uid = 0
        /\ resp[t].status = 200

ValidStreamToken(x) ==
    /\ x.token.secret = STREAM_SECRET
    /\ (x.time \div 1000) < x.token.exp
    /\ x.token.sid = x.media

ValidSession(x) ==
    /\ x.at.secret = JWT_ACCESS_SECRET
    /\ (x.time \div 1000) < x.at.exp

\* C15: on a stream request a presented stream token decides alone: valid for
\* the requested media id it authorizes the request whatever the session is,
\* and one that does not verify is answered 401 even beside a valid session;
\* without a stream token the request is authorized exactly when the session
\* access token verifies, and is answered 401 otherwise.
C15_StreamTokenFirst ==
    \A s \in Slots :
        resp[s].kind = "stream"
            => /\ (resp[s].token # NoToken /\ ValidStreamToken(resp[s]))
                      => Authorized(resp[s])
               /\ (resp[s].token # NoToken /\ ~ValidStreamToken(resp[s]))
                      => ~Authorized(resp[s])
               /\ (resp[s].token = NoToken /\ ValidSession(resp[s]))
                      => Authorized(resp[s])
               /\ (resp[s].token = NoToken /\ ~ValidSession(resp[s]))
                      => resp[s].status = 401 /\ resp[s].relayed = ""

\* a stream served on the stream token alone, no session sent
C15_Witness ==
    \E s \in Slots :
        /\ resp[s].kind = "stream"
        /\ ValidStreamToken(resp[s])
        /\ resp[s].at = NoToken
        /\ resp[s].status = 200
        /\ resp[s].relayed = resp[s].media

\* a stream request that was authorized, found its song and fetched it
Fetched(x) == x.kind = "stream" /\ x.fetched # ""

\* C16 as claimed: for an authorized stream request on an existing song, a
\* fetch that throws and a fetch answered with a non-success status are both
\* reported as the upstream failure, 502 "Failed to fetch audio".
C16_UpstreamFailuresAre502 ==
    \A s \in Slots :
        (Fetched(resp[s]) /\ resp[s].upstream \in {"throw", "bad"})
            => /\ resp[s].status = 502
               /\ resp[s].body = "Failed to fetch audio"

\* C17: for an authorized stream request on an existing song, the Range header
\* goes upstream exactly when the client sent one; a client range answered by
\* storage with partial content is relayed as 206 with Content-Range and
\* Content-Length; without a client range a successful fetch is relayed as 200
\* without Content-Range.
C17_RangeMirrored ==
    \A s \in Slots :
        Fetched(resp[s])
            => /\ resp[s].forwarded = (IF resp[s].range THEN {"Range"} ELSE {})
               /\ (resp[s].range /\ resp[s].upstream = "partial")
                     => /\ resp[s].status = 206
                        /\ {"Content-Range", "Content-Length"} \subseteq resp[s].headers
                        /\ resp[s].relayed = resp[s].media
               /\ (~resp[s].range /\ resp[s].upstream \in {"ok", "partial"})
                     => /\ resp[s].status = 200
                        /\ "Content-Range" \notin resp[s].headers
                        /\ resp[s].relayed = resp[s].media

C17_Witness ==
    \E s \in Slots :
        /\ Fetched(resp[s])
        /\ resp[s].range
        /\ resp[s].forwarded = {"Range"}
        /\ resp[s].status = 206
        /\ "Content-Range" \in resp[s].headers

MediaKinds == {"upload", "list", "search", "album", "update", "stream-token", "stream"}

\* every url and publicId the library holds
Backing == {songs[id].url : id \in DOMAIN songs} \cup {songs[id].publicId : id \in DOMAIN songs}

\* C19: no response of the media routes (upload, list, search, album, update,
\* stream-token, stream; errors included) carries a song's url or publicId:
\* no returned song has those paths, and no returned text, message or header
\* is a stored url or publicId.
C19_BackingReferenceHidden ==
    \A s \in Slots :
        resp[s].kind \in MediaKinds
            => /\ \A d \in resp[s].docs :
                     /\ DOMAIN d \cap Hidden = {}
                     /\ \A f \in DOMAIN d \ {"uploadedBy"} : d[f] \notin Backing
               /\ resp[s].body \notin Backing
               /\ resp[s].headers \cap Backing = {}

\* an update that tried to set the url, answered with the renamed song
C19_Witness ==
    \E s \in Slots :
        /\ resp[s].kind = "update"
        /\ resp[s].status = 200
        /\ \E d \in resp[s].docs : d.title = "renamed" /\ DOMAIN d \cap Hidden = {}
        /\ songs[resp[s].media].url = SecureUrl(resp[s].media)

\* a register answered at once: rejected by the validators or as a duplicate
RegisterRejected(x) == x.kind = "register" /\ x.status # 0 /\ x.status # 201

\* C18: with requests handled one at a time, a register request with valid
\* input whose username (trimmed, lower-cased) already belongs to an account
\* is answered 400 "Invalid input" without cookies, as a request with invalid
\* input is, and the step that answers it leaves the accounts, the tokens
\* handed out and the registry as they were.
C18_DuplicateRegisterRejected ==
    [][\A s \in Slots :
          (/\ req[s].pc = "idle"
           /\ req'[s].pc = "idle"
           /\ resp'[s].kind = "register"
           /\ StrLen(resp'[s].password) >= MinPasswordLen
           /\ FindByUsername(resp'[s].username) # {})
             => /\ Visible(resp'[s]) =
                      [status |-> ValidationError.status, body |-> ValidationError.body,
                       at |-> NoToken, rt |-> NoToken, cleared |-> FALSE]
                /\ resp'[s].body = "Invalid input"
                /\ db' = db
                /\ issued' = issued
                /\ life' = life]_vars

\* a duplicate registration with valid input was turned down
C18_Witness ==
    \E s \in Slots :
        /\ RegisterRejected(resp[s])
        /\ StrLen(resp[s].password) >= MinPasswordLen
        /\ FindByUsername(resp[s].username) # {}
        /\ resp[s].status = 400
        /\ Len(db) = 1

\* C20: with requests handled one at a time, a login that arrives while the
\* account is locked (now < lockUntil) never reaches the credential check: it
\* is answered 403 in the step that loads the account, and that step leaves
\* every account (failedLoginAttempts, lockUntil, registry), the count of
\* failed checks and the tokens handed out as they were.
C20_LockedLoginChangesNothing ==
    [][\A s \in Slots :
          /\ req'[s].pc = "login_verify" => req'[s].lock # "locked"
          /\ (/\ req[s].pc = "idle"
              /\ req'[s].pc = "idle"
              /\ resp'[s].kind = "login"
              /\ resp'[s].lock = "locked")
                => /\ resp'[s].status = 403
                   /\ db' = db
                   /\ wrongRun' = wrongRun
                   /\ issued' = issued
                   /\ life' = life]_vars

\* a wrong password turned down in the last millisecond of a lock that still
\* ends when it was set to end
C20_Witness ==
    \E s \in Slots :
        /\ resp[s].kind = "login"
        /\ resp[s].lock = "locked"
        /\ ~RightPassword(resp[s])
        /\ resp[s].status = 403
        /\ now = LOCK_MS - 1
        /\ db[resp[s].uid].lockUntil = LOCK_MS
        /\ db[resp[s].uid].failedLoginAttempts = 0

\* slot s is answered in this step
Answered(s) == req'[s].pc = "idle" /\ (req[s].pc # "idle" \/ resp'[s] # resp[s])

\* a refresh cookie that is missing, forged, expired at time t, or names no
\* stored account
BadRefreshCookie(tok, t) ==
    \/ tok = NoToken
    \/ tok.secret # JWT_REFRESH_SECRET
    \/ (t \div 1000) >= tok.exp
    \/ tok.sub \notin DOMAIN db

\* C21: a /refresh whose cookie is, when the request arrives, missing, forged,
\* expired or naming no stored account is answered 401 "Unauthorized" with no
\* tokens in the step that reads it, never goes on to the registry lookup,
\* and that step changes no account: no registry record is revoked.
C21_BadRefreshChangesNothing ==
    [][\A s \in Slots :
          /\ (req[s].pc = "idle" /\ req'[s].pc = "refresh_rotate")
                => ~BadRefreshCookie(req'[s].token, now)
          /\ (req[s].pc = "idle" /\ Answered(s) /\ resp'[s].kind = "refresh"
                /\ BadRefreshCookie(resp'[s].token, now))
                => /\ resp'[s].status = 401
                   /\ resp'[s].body = "Unauthorized"
                   /\ resp'[s].rt = NoToken /\ resp'[s].at = NoToken
                   /\ db' = db
                   /\ life' = life]_vars

\* an expired token of a stored account was turned down while the account
\* still holds a record
C21_Witness ==
    \E s \in Slots :
        /\ resp[s].kind = "refresh"
        /\ resp[s].token \in DOMAIN life
        /\ (now \div 1000) >= resp[s].token.exp
        /\ resp[s].status = 401
        /\ resp[s].body = "Unauthorized"
        /\ db[resp[s].token.sub].refreshTokens # <<>>

\* the routes behind the access token: /me and the ones behind authMiddleware
AccessRoutes == {"me", "upload", "stream-token"}

\* C22: the kinds of token are not interchangeable. /me and the routes behind
\* authMiddleware answer 401 to a refresh token and to a stream token;
\* /refresh answers 401 "Unauthorized" to an access token and to a stream
\* token and never looks up the registry for one; /logout never loads an
\* account for one. None of these requests changes an account.
C22_KindsNotInterchangeable ==
    [][\A s \in Slots :
          /\ (req[s].pc = "idle" /\ req'[s].pc \in {"refresh_rotate", "logout_save"})
                => req'[s].token.secret = JWT_REFRESH_SECRET
          /\ (Answered(s) /\ resp'[s].kind \in AccessRoutes
                /\ resp'[s].token.secret # JWT_ACCESS_SECRET)
                => /\ resp'[s].status = 401
                   /\ resp'[s].body = "Unauthorized"
                   /\ db' = db /\ songs' = songs /\ issued' = issued
          /\ (Answered(s) /\ resp'[s].kind = "refresh"
                /\ resp'[s].token.secret # JWT_REFRESH_SECRET)
                => /\ resp'[s].status = 401
                   /\ resp'[s].body = "Unauthorized"
                   /\ resp'[s].at = NoToken /\ resp'[s].rt = NoToken
                   /\ db' = db /\ life' = life
          /\ (Answered(s) /\ resp'[s].kind = "logout"
                /\ resp'[s].token.secret # JWT_REFRESH_SECRET)
                => db' = db /\ life' = life]_vars

\* an unexpired access token of a stored account was turned down by /refresh,
\* after a stream token had been signed, while the account holds a record
C22_Witness ==
    /\ resp[1].kind = "refresh"
    /\ resp[1].token.secret = JWT_ACCESS_SECRET
    /\ JwtVerify(resp[1].token, JWT_ACCESS_SECRET, now)
    /\ resp[1].token.sub \in DOMAIN db
    /\ db[resp[1].token.sub].refreshTokens # <<>>
    /\ resp[1].status = 401
    /\ \E st \in issued : st.secret = STREAM_SECRET

\* the failed credential checks of account u since the later of its last
\* successful login and its last lock
FailedSince(u) == IF wrongRun[u] >= LockThreshold THEN 0 ELSE wrongRun[u]

\* C23: with requests handled one at a time, after every step each stored
\* account's failedLoginAttempts is between 0 and 4 and equals the number of
\* failed credential checks since the later of the last successful login and
\* the last lock; and a step that sets a lock is the fifth failed check in a
\* row with no successful login in between.
C23_CounterIsFailuresSinceReset ==
    [][\A u \in DOMAIN db' :
          /\ db'[u].failedLoginAttempts \in 0..(LockThreshold - 1)
          /\ db'[u].failedLoginAttempts = FailedSince(u)'
          /\ (u \in DOMAIN db /\ db'[u].lockUntil # Null
                /\ db'[u].lockUntil # db[u].lockUntil)
                => (wrongRun[u] = LockThreshold - 1 /\ wrongRun'[u] = LockThreshold)]_vars

\* a failed login answered after a successful one: four failed checks since
\* that login, the counter at 4, no lock
C23_Witness ==
    \E u \in DOMAIN db :
        /\ resp[1].kind = "login" /\ resp[1].status = 401 /\ resp[1].uid = u
        /\ db[u].failedLoginAttempts = LockThreshold - 1
        /\ wrongRun[u] = LockThreshold - 1
        /\ db[u].lockUntil = Null
        /\ \E t \in DOMAIN life : life[t].uid = u /\ life[t].origin = "login"

\* C24: registry changes never invalidate access tokens. Whatever the
\* registry holds (after a logout, a rotation or a mass revocation), /me and
\* the route behind authMiddleware accept an access token of a stored account
\* up to the last instant before its exp claim, and answer 401 from then on.
C24_AccessOutlivesRegistry ==
    [][\A s \in Slots :
          (Answered(s) /\ resp'[s].kind \in {"me", "upload"}
            /\ resp'[s].token.secret = JWT_ACCESS_SECRET
            /\ resp'[s].token.sub \in DOMAIN db)
            => IF (now \div 1000) < resp'[s].token.exp
               THEN /\ resp'[s].status # 401
                    /\ resp'[s].uid = resp'[s].token.sub
                    /\ resp'[s].kind = "me" => resp'[s].status = 200
               ELSE resp'[s].status = 401]_vars

\* /me answered 200, in the last millisecond of the token's 15 minutes, after
\* a replay emptied the registry of the account
C24_Witness ==
    /\ resp[1].kind = "me"
    /\ resp[1].status = 200
    /\ now = resp[1].token.exp * 1000 - 1
    /\ db[resp[1].token.sub].refreshTokens = <<>>
    /\ \E t \in DOMAIN life : life[t].uid = resp[1].token.sub /\ life[t].state = "revoked"

\* C25: with requests handled one at a time, a refresh token whose record a
\* logout has removed, presented to /refresh before it expires, is answered
\* 401 "Session invalidated" with the cookies cleared and no new pair, and the
\* account is left with no refresh record: the sessions of its other devices
\* are revoked with it.
C25_LoggedOutTokenIsReuse ==
    \A s \in Slots :
        (resp[s].kind = "refresh" /\ resp[s].was = "loggedout")
           => /\ Invalidated(resp[s])
              /\ resp[s].at = NoToken /\ resp[s].rt = NoToken
              /\ db[resp[s].uid].refreshTokens = <<>>
              /\ \A t \in TokensOf(resp[s].uid) : life[t].state # "live"

\* the logged-out token was presented while another device's login session
\* was registered, and that session is now revoked
C25_Witness ==
    \E s \in Slots :
        /\ resp[s].kind = "refresh"
        /\ resp[s].was = "loggedout"
        /\ life[resp[s].token].state = "loggedout"
        /\ JwtVerify(resp[s].token, JWT_REFRESH_SECRET, now)
        /\ Invalidated(resp[s])
        /\ \E t \in TokensOf(resp[s].uid) :
              life[t].state = "revoked" /\ life[t].origin = "login"

TokenOf(rec) == rec.tokenHash[2]

\* C27: after every step each stored refresh record expires no earlier than
\* the exp claim of the token whose hash it holds, and a refresh is answered
\* "Session invalidated" (the reuse revocation) only when the account holds no
\* record with the hash of the presented token.
C27_ReuseOnlyWithoutRecord ==
    [][/\ \A u \in DOMAIN db' : \A i \in DOMAIN db'[u].refreshTokens :
             db'[u].refreshTokens[i].expiresAt
                >= TokenOf(db'[u].refreshTokens[i]).exp * 1000
       /\ \A s \in Slots :
             (Answered(s) /\ resp'[s].kind = "refresh" /\ Invalidated(resp'[s]))
                => Sha256(resp'[s].token) \notin Hashes(db[resp'[s].uid].refreshTokens)]_vars

\* C28: a stream request whose stream token does not verify (forged or
\* expired) is answered 401, and one whose token verifies but was minted for
\* another media id is answered 403, also when the request carries a valid
\* session access token; the request is answered before the song is looked up
\* (never 404 for a missing song) and nothing is fetched or relayed.
C28_BadStreamTokenDecides ==
    \A s \in Slots :
        (resp[s].kind = "stream" /\ resp[s].token # NoToken /\ ~ValidStreamToken(resp[s]))
           => /\ IF resp[s].token.secret = STREAM_SECRET
                     /\ (resp[s].time \div 1000) < resp[s].token.exp
                 THEN resp[s].status = 403 /\ resp[s].body = "Invalid stream token"
                 ELSE resp[s].status = 401
                      /\ resp[s].body = "Invalid or expired stream token"
              /\ resp[s].fetched = ""
              /\ resp[s].relayed = ""

\* a token minted for a stored song, presented with a valid session for a
\* media id that names no song: 403, not 404
C28_Witness ==
    \E s \in Slots :
        /\ resp[s].kind = "stream"
        /\ resp[s].token.secret = STREAM_SECRET
        /\ resp[s].token.sid \in DOMAIN songs
        /\ resp[s].media \notin DOMAIN songs
        /\ ValidSession(resp[s])
        /\ resp[s].status = 403

\* the accounts whose stored state a step creates or changes
Touched == {u \in DOMAIN db' : u \notin DOMAIN db \/ db'[u] # db[u]}

\* the request being handled on slot s names account u (as it is after the
\* step): by its username for register and login, by the subject of its
\* token for refresh and logout
Names(s, u) ==
    /\ req[s].pc # "idle"
    /\ IF req[s].kind \in {"register", "login"}
       THEN db'[u].username = req[s].username
       ELSE req[s].token.sub = u

\* C29: account isolation. Every step of a register, login, refresh or logout
\* request changes the stored state of at most one account, and that account
\* is the one the request names by its username or by its token's subject.
C29_OneAccountPerRequest ==
    [][/\ Cardinality(Touched) <= 1
       /\ \A u \in Touched : \E s \in Slots : Names(s, u)]_vars

\* one account locked and its sessions revoked by a replay, while the other
\* account still holds its record with a clean guard
C29_Witness ==
    \E a, b \in DOMAIN db :
        /\ a # b
        /\ db[a].lockUntil # Null
        /\ resp[1].kind = "refresh" /\ Invalidated(resp[1]) /\ resp[1].uid = a
        /\ db[a].refreshTokens = <<>>
        /\ db[b].refreshTokens # <<>>
        /\ db[b].lockUntil = Null /\ db[b].failedLoginAttempts = 0

\* C30 as claimed: with registrations for one new username interleaved at
\* their check-existing and create-account steps, at most one account has the
\* username, at most one of two answered requests for it got 201, and a
\* request with valid input that did not get 201 got 400 "Invalid input", as
\* a sequential duplicate registration does.
C30_ConcurrentDuplicateIs400 ==
    /\ \A u \in RaceUsernames : Cardinality(FindByUsername(Normalize(u))) <= 1
    /\ \A s, t \in Slots :
          (s # t /\ resp[s].kind = "register" /\ resp[t].kind = "register"
            /\ resp[s].status = 201 /\ resp[t].status = 201)
             => resp[s].username # resp[t].username
    /\ \A s \in Slots :
          (RegisterRejected(resp[s]) /\ StrLen(resp[s].password) >= MinPasswordLen)
             => resp[s].status = 400 /\ resp[s].body = "Invalid input"

====
